---- MODULE Spec2Model ----
(***************************************************************************)
(* Model of the base32 codec (src/src/base32.rs): encode and decode for    *)
(* the three Base32Type variants.  Bytes are integers 0..255 with u8       *)
(* arithmetic (shifts truncate to 8 bits, subtraction wraps); Ascii        *)
(* characters are their character codes 0..127.                            *)
(***************************************************************************)
EXTENDS Integers, Sequences, FiniteSets, TLC

VARIABLES base32_type, data, text, encoded, decoded, cap, pushed, pc

vars == <<base32_type, data, text, encoded, decoded, cap, pushed, pc>>

(***************************************************************************)
(* Bounds of the explored inputs.                                          *)
(***************************************************************************)
MaxDataLen == 6
MaxBody == 2
MaxPad == 7

(***************************************************************************)
(* enum Base32Type                                                         *)
(***************************************************************************)
Base32Type == {"RFC4648Base32", "CrockfordBase32", "UnpaddedRFC4648Base32"}

\* "ABCDEFGHIJKLMNOPQRSTUVWXYZ234567" as character codes
RFC4648_ALPHABET ==
  <<65, 66, 67, 68, 69, 70, 71, 72, 73, 74, 75, 76, 77, 78, 79, 80,
    81, 82, 83, 84, 85, 86, 87, 88, 89, 90, 50, 51, 52, 53, 54, 55>>

\* "0123456789ABCDEFGHJKMNPQRSTVWXYZ" as character codes
CROCKFORD_ALPHABET ==
  <<48, 49, 50, 51, 52, 53, 54, 55, 56, 57, 65, 66, 67, 68, 69, 70,
    71, 72, 74, 75, 77, 78, 80, 81, 82, 83, 84, 86, 87, 88, 89, 90>>

\* '='.to_ascii()
PadChar == 61

\* '0' as u8
ZeroChar == 48

\* the u8 value of the table entries written -1
Sentinel == 255

\* static RFC4648_INV_ALPHABET: [u8, ..43], indexed by character - '0'
RFC4648_INV_ALPHABET ==
  <<255, 255, 26, 27, 28, 29, 30, 31, 255, 255, 255, 255, 255, 0, 255, 255,
    255, 0, 1, 2, 3, 4, 5, 6, 7, 8, 9, 10, 11, 12, 13, 14, 15, 16, 17, 18,
    19, 20, 21, 22, 23, 24, 25>>

\* static CROCKFORD_INV_ALPHABET: [u8, ..43], indexed by character - '0'
CROCKFORD_INV_ALPHABET ==
  <<0, 1, 2, 3, 4, 5, 6, 7, 8, 9, 255, 255, 255, 255, 255, 255, 255, 10, 11,
    12, 13, 14, 15, 16, 17, 1, 18, 19, 1, 20, 21, 0, 22, 23, 24, 25, 26, 255,
    27, 28, 29, 30, 31>>

(***************************************************************************)
(* u8 arithmetic                                                           *)
(***************************************************************************)
Pow2(k) == 2 ^ k

Bit(x, i) == (x \div Pow2(i)) % 2

RECURSIVE OrBits(_, _, _)
OrBits(a, b, i) ==
  IF i < 0 THEN 0
  ELSE (IF Bit(a, i) = 1 \/ Bit(b, i) = 1 THEN Pow2(i) ELSE 0)
       + OrBits(a, b, i - 1)

RECURSIVE AndBits(_, _, _)
AndBits(a, b, i) ==
  IF i < 0 THEN 0
  ELSE (IF Bit(a, i) = 1 /\ Bit(b, i) = 1 THEN Pow2(i) ELSE 0)
       + AndBits(a, b, i - 1)

\* a | b on u8
Or8(a, b) == OrBits(a, b, 7)

\* a & b on u8
And8(a, b) == AndBits(a, b, 7)

\* a << k on u8: bits shifted past bit 7 are lost
Shl8(a, k) == (a * Pow2(k)) % 256

\* a >> k on u8
Shr8(a, k) == a \div Pow2(k)

\* a - b on u8 (wrapping)
Sub8(a, b) == (a + 256 - b) % 256

Min(a, b) == IF a < b THEN a ELSE b

(***************************************************************************)
(* encode                                                                  *)
(***************************************************************************)
\* match base32_type { ... } in encode
Alphabet(t) ==
  IF t = "CrockfordBase32" THEN CROCKFORD_ALPHABET ELSE RFC4648_ALPHABET

\* Vec::with_capacity((data.len()+3)/4*5)
EncodeCapacity(d) == ((Len(d) + 3) \div 4) * 5

\* let mut buf = [0u8, ..5]; buf.clone_from_slice(chunk)
EncodeBuf(chunk) == [i \in 1..5 |-> IF i <= Len(chunk) THEN chunk[i] ELSE 0]

\* EncodeIndices with the mask of the third symbol written 0x3C for 0x3E
EncodeIndicesWrongMask(buf) ==
  << Shr8(And8(buf[1], 248), 3),
     Or8(Shl8(And8(buf[1], 7), 2), Shr8(And8(buf[2], 192), 6)),
     Shr8(And8(buf[2], 60), 1),
     Or8(Shl8(And8(buf[2], 1), 4), Shr8(And8(buf[3], 240), 4)),
     Or8(Shl8(And8(buf[3], 15), 1), Shr8(buf[4], 7)),
     Shr8(And8(buf[4], 124), 2),
     Or8(Shl8(And8(buf[4], 3), 3), Shr8(And8(buf[5], 224), 5)),
     And8(buf[5], 31) >>

\* the eight alphabet indices pushed for one chunk (buf[k] is buf[k+1] here)
EncodeIndices(buf) ==
  << Shr8(And8(buf[1], 248), 3),
     Or8(Shl8(And8(buf[1], 7), 2), Shr8(And8(buf[2], 192), 6)),
     Shr8(And8(buf[2], 62), 1),
     Or8(Shl8(And8(buf[2], 1), 4), Shr8(And8(buf[3], 240), 4)),
     Or8(Shl8(And8(buf[3], 15), 1), Shr8(buf[4], 7)),
     Shr8(And8(buf[4], 124), 2),
     Or8(Shl8(And8(buf[4], 3), 3), Shr8(And8(buf[5], 224), 5)),
     And8(buf[5], 31) >>

\* for chunk in data.chunks(5) { ret.push(alphabet[...]); x8 }
RECURSIVE EncodeLoop(_, _)
EncodeLoop(alphabet, d) ==
  IF Len(d) = 0 THEN <<>>
  ELSE LET n == Min(5, Len(d))
           idx == EncodeIndices(EncodeBuf(SubSeq(d, 1, n)))
       IN  [i \in 1..8 |-> alphabet[idx[i] + 1]]
           \o EncodeLoop(alphabet, SubSeq(d, n + 1, Len(d)))

\* number of ret.push calls made by encode
EncodePushes(d) == 8 * ((Len(d) + 4) \div 5)

\* NumExtra with the symbol count of the last group rounded down
NumExtraRoundedDown(n) == 8 - ((n % 5) * 8) \div 5

\* let num_extra = 8-(data.len()%5*8+4)/5
NumExtra(n) == 8 - ((n % 5) * 8 + 4) \div 5

\* encode with the Crockford arm of the final match padding instead of
\* truncating
encodeCrockfordPadded(t, d) ==
  LET ret == EncodeLoop(Alphabet(t), d)
      len == Len(ret)
      num_extra == NumExtra(Len(d))
  IN  IF Len(d) % 5 # 0
      THEN IF t # "UnpaddedRFC4648Base32"
           THEN [i \in 1..len |-> IF i > len - num_extra THEN PadChar ELSE ret[i]]
           ELSE SubSeq(ret, 1, len - num_extra)
      ELSE ret

encode(t, d) ==
  LET ret == EncodeLoop(Alphabet(t), d)
      len == Len(ret)
      num_extra == NumExtra(Len(d))
  IN  IF Len(d) % 5 # 0
      THEN IF t = "RFC4648Base32"
           THEN [i \in 1..len |-> IF i > len - num_extra THEN PadChar ELSE ret[i]]
           ELSE SubSeq(ret, 1, len - num_extra)
      ELSE ret

(***************************************************************************)
(* decode                                                                  *)
(***************************************************************************)
None == [some |-> FALSE, val |-> <<>>]

Some(v) == [some |-> TRUE, val |-> v]

\* InvAlphabet with UnpaddedRFC4648Base32 matched by the Crockford arm
InvAlphabetUnpaddedCrockford(t) ==
  IF t = "RFC4648Base32" THEN RFC4648_INV_ALPHABET ELSE CROCKFORD_INV_ALPHABET

\* match base32_type { ... } in decode
InvAlphabet(t) ==
  IF t = "CrockfordBase32" THEN CROCKFORD_INV_ALPHABET ELSE RFC4648_INV_ALPHABET

\* to_uppercase left out of the lookup
to_uppercase_omitted(c) == c

\* Ascii::to_uppercase
to_uppercase(c) == IF c >= 97 /\ c <= 122 THEN c - 32 ELSE c

\* alphabet.get((c.to_uppercase().to_byte()-('0' as u8)) as uint);
\* Sentinel stands for both Some(&-1) and None
Lookup(alphabet, c) ==
  LET idx == Sub8(to_uppercase(c), ZeroChar)
  IN  IF idx < Len(alphabet) THEN alphabet[idx + 1] ELSE Sentinel

\* PaddingCount without the limit of 6
RECURSIVE PaddingCountUncapped(_, _)
PaddingCountUncapped(d, i) ==
  IF i > Len(d) THEN 0
  ELSE IF d[Len(d) - i + 1] # PadChar THEN 0
  ELSE 1 + PaddingCountUncapped(d, i + 1)

\* the loop counting trailing '=' from index i on, at most min(6, len)
RECURSIVE PaddingCount(_, _)
PaddingCount(d, i) ==
  IF i > Min(6, Len(d)) THEN 0
  ELSE IF d[Len(d) - i + 1] # PadChar THEN 0
  ELSE 1 + PaddingCount(d, i + 1)

UnpaddedDataLength(d) == Len(d) - PaddingCount(d, 1)

\* OutputLength rounded up
OutputLengthRoundedUp(u) == (u * 5 + 7) \div 8

\* let output_length = unpadded_data_length*5/8
OutputLength(u) == (u * 5) \div 8

\* Vec::with_capacity((output_length+4)/5*5)
DecodeCapacity(d) == ((OutputLength(UnpaddedDataLength(d)) + 4) \div 5) * 5

\* let mut buf = [0u8, ..8]; buf[i] = value for the characters of the chunk
DecodeBuf(alphabet, chunk) ==
  [i \in 1..8 |-> IF i <= Len(chunk) THEN Lookup(alphabet, chunk[i]) ELSE 0]

\* a character of the chunk hits Some(&-1) | None => return None
ChunkInvalid(alphabet, chunk) ==
  \E i \in 1..Len(chunk) : Lookup(alphabet, chunk[i]) = Sentinel

\* DecodeOctets with the first octet taking buf[1] >> 3 for buf[1] >> 2
DecodeOctetsWrongShift(buf) ==
  << Or8(Shl8(buf[1], 3), Shr8(buf[2], 3)),
     Or8(Or8(Shl8(buf[2], 6), Shl8(buf[3], 1)), Shr8(buf[4], 4)),
     Or8(Shl8(buf[4], 4), Shr8(buf[5], 1)),
     Or8(Or8(Shl8(buf[5], 7), Shl8(buf[6], 2)), Shr8(buf[7], 3)),
     Or8(Shl8(buf[7], 5), buf[8]) >>

\* the five octets pushed for one chunk (buf[k] is buf[k+1] here)
DecodeOctets(buf) ==
  << Or8(Shl8(buf[1], 3), Shr8(buf[2], 2)),
     Or8(Or8(Shl8(buf[2], 6), Shl8(buf[3], 1)), Shr8(buf[4], 4)),
     Or8(Shl8(buf[4], 4), Shr8(buf[5], 1)),
     Or8(Or8(Shl8(buf[5], 7), Shl8(buf[6], 2)), Shr8(buf[7], 3)),
     Or8(Shl8(buf[7], 5), buf[8]) >>

\* for chunk in data.chunks(8) { ... }: the vector built, or failure, and
\* the number of pushes made
RECURSIVE DecodeLoop(_, _)
DecodeLoop(alphabet, d) ==
  IF Len(d) = 0 THEN [ok |-> TRUE, ret |-> <<>>, pushes |-> 0]
  ELSE LET n == Min(8, Len(d))
           chunk == SubSeq(d, 1, n)
       IN  IF ChunkInvalid(alphabet, chunk)
           THEN [ok |-> FALSE, ret |-> <<>>, pushes |-> 0]
           ELSE LET rest == DecodeLoop(alphabet, SubSeq(d, n + 1, Len(d)))
                IN  [ok |-> rest.ok,
                     ret |-> IF rest.ok
                             THEN DecodeOctets(DecodeBuf(alphabet, chunk)) \o rest.ret
                             ELSE <<>>,
                     pushes |-> 5 + rest.pushes]

\* number of ret.push calls made by decode before it returns
DecodePushes(t, d) == DecodeLoop(InvAlphabet(t), d).pushes

decode(t, d) ==
  LET output_length == OutputLength(UnpaddedDataLength(d))
      r == DecodeLoop(InvAlphabet(t), d)
  IN  IF r.ok
      THEN Some(SubSeq(r.ret, 1, Min(output_length, Len(r.ret))))
      ELSE None

(***************************************************************************)
(* Inputs                                                                  *)
(***************************************************************************)
RECURSIVE SeqsOfLen(_, _)
SeqsOfLen(S, n) ==
  IF n = 0 THEN {<<>>}
  ELSE {Append(s, x) : s \in SeqsOfLen(S, n - 1), x \in S}

SeqsUpTo(S, n) == UNION {SeqsOfLen(S, k) : k \in 0..n}

\* 0x00, 0xFF, 0xA5: every bit position takes both values
ByteVals == {0, 255, 165}

\* the inputs of the unit tests masks_*, padding, and of invertible in
\* crockford-base32.rs
TestData ==
  { <<248, 62, 15, 131, 224>>, <<7, 193, 240, 124, 31>>,
    <<248, 62, 127, 131, 231>>, <<119, 193, 247, 124, 31>>,
    <<248, 62, 127, 131>>,
    <<0>>, <<0, 1>>, <<0, 1, 2>>, <<0, 1, 2, 3>>, <<0, 1, 2, 3, 4>> }
  \cup { <<i, i, i, i, i>> : i \in 0..255 }

DataInputs == SeqsUpTo(ByteVals, MaxDataLen) \cup TestData

\* A a Z 1 l O = , U
TextChars == {65, 97, 90, 49, 108, 79, 61, 44, 85}

\* "7A7H7A7H", a full group valid in both alphabets
FullGroup == <<55, 65, 55, 72, 55, 65, 55, 72>>

Padding(n) == [i \in 1..n |-> PadChar]

\* "IiLlOo", "111100", "Z0Z0Z0Z0", "0Z0Z0Z0Z", "O7A7O7A7", "abcdefgh", ",",
\* "7[", "7@"
TestTexts ==
  { <<73, 105, 76, 108, 79, 111>>, <<49, 49, 49, 49, 48, 48>>,
    <<90, 48, 90, 48, 90, 48, 90, 48>>, <<48, 90, 48, 90, 48, 90, 48, 90>>,
    <<79, 55, 65, 55, 79, 55, 65, 55>>,
    <<97, 98, 99, 100, 101, 102, 103, 104>>, <<44>>, <<55, 91>>, <<55, 64>> }

TextInputs ==
  { p \o b \o Padding(n) :
      p \in {<<>>, FullGroup}, b \in SeqsUpTo(TextChars, MaxBody), n \in 0..MaxPad }
  \cup TestTexts

(***************************************************************************)
(* State machine: a caller picks a variant and an input, then calls        *)
(* encode (optionally feeding the result to decode, as the invertible_*    *)
(* tests do) or decode.                                                    *)
(***************************************************************************)
Init ==
  /\ base32_type \in Base32Type
  /\ \/ /\ data \in DataInputs
        /\ text = <<>>
        /\ pc = "encode"
     \/ /\ data = <<>>
        /\ text \in TextInputs
        /\ pc = "decode"
  /\ encoded = <<>>
  /\ decoded = None
  /\ cap = 0
  /\ pushed = 0

Encode ==
  /\ pc = "encode"
  /\ encoded' = encode(base32_type, data)
  /\ cap' = EncodeCapacity(data)
  /\ pushed' = EncodePushes(data)
  /\ pc' = "encoded"
  /\ UNCHANGED <<base32_type, data, text, decoded>>

\* decode(T, encode(T, data)) of the invertible_* tests
DecodeEncoded ==
  /\ pc = "encoded"
  /\ text' = encoded
  /\ decoded' = decode(base32_type, encoded)
  /\ cap' = DecodeCapacity(encoded)
  /\ pushed' = DecodePushes(base32_type, encoded)
  /\ pc' = "roundtrip"
  /\ UNCHANGED <<base32_type, data, encoded>>

Decode ==
  /\ pc = "decode"
  /\ decoded' = decode(base32_type, text)
  /\ cap' = DecodeCapacity(text)
  /\ pushed' = DecodePushes(base32_type, text)
  /\ pc' = "decoded"
  /\ UNCHANGED <<base32_type, data, text, encoded>>

Next == Encode \/ DecodeEncoded \/ Decode

Spec == Init /\ [][Next]_vars

TypeOK ==
  /\ base32_type \in Base32Type
  /\ pc \in {"encode", "encoded", "roundtrip", "decode", "decoded"}
  /\ \A i \in 1..Len(encoded) : encoded[i] \in 0..127
  /\ decoded.some => \A i \in 1..Len(decoded.val) : decoded.val[i] \in 0..255

(***************************************************************************)
(* Vocabulary of the properties                                            *)
(***************************************************************************)
Ceil(a, b) == (a + b - 1) \div b

EncodeDone == pc \in {"encoded", "roundtrip"}

DecodeDone == pc \in {"decoded", "roundtrip"}

\* bit k (0 = most significant) of the concatenation of the octets of b
ConcatBit(b, k) == Bit(b[(k \div 8) + 1], 7 - (k % 8))

\* the i-th (0..7) 5-bit slice of the 40-bit concatenation of b[1..5]
Slice(b, i) ==
  16 * ConcatBit(b, 5 * i) + 8 * ConcatBit(b, 5 * i + 1)
  + 4 * ConcatBit(b, 5 * i + 2) + 2 * ConcatBit(b, 5 * i + 3)
  + ConcatBit(b, 5 * i + 4)

\* the symbol of value v in A..Z 2..7
RfcSymbol(v) == IF v < 26 THEN 65 + v ELSE 50 + (v - 26)

\* the symbol of value v in 0..9 followed by A..Z without I, L, O, U
CrockfordSymbol(v) ==
  IF v < 10 THEN 48 + v
  ELSE LET k == v - 10
           c1 == 65 + k
           c2 == IF c1 >= 73 THEN c1 + 1 ELSE c1
           c3 == IF c2 >= 76 THEN c2 + 1 ELSE c2
           c4 == IF c3 >= 79 THEN c3 + 1 ELSE c3
           c5 == IF c4 >= 85 THEN c4 + 1 ELSE c4
       IN  c5

Symbol(t, v) == IF t = "CrockfordBase32" THEN CrockfordSymbol(v) ELSE RfcSymbol(v)

SymbolSet(t) == {Symbol(t, v) : v \in 0..31}

\* bits hi..lo of q, as a pair <<value, width>>
Field(q, hi, lo) == <<(q \div Pow2(lo)) % Pow2(hi - lo + 1), hi - lo + 1>>

\* the number written by the fields of fs one after the other
RECURSIVE Cat(_)
Cat(fs) ==
  IF Len(fs) = 0 THEN 0
  ELSE LET f == fs[Len(fs)]
       IN  Cat(SubSeq(fs, 1, Len(fs) - 1)) * Pow2(f[2]) + f[1]

\* the quintet values of the k-th (0-based) group of eight characters
GroupQuintets(t, d, k) ==
  [i \in 1..8 |-> Lookup(InvAlphabet(t), d[8 * k + i])]

FullGroups(d) == 0..((Len(d) \div 8) - 1)

AllPass(t, d) == \A i \in 1..Len(d) : Lookup(InvAlphabet(t), d[i]) # Sentinel

\* number of '=' at the end of d
RECURSIVE TrailingPads(_)
TrailingPads(d) ==
  IF Len(d) = 0 THEN 0
  ELSE IF d[Len(d)] # PadChar THEN 0
  ELSE 1 + TrailingPads(SubSeq(d, 1, Len(d) - 1))

\* the text length minus its trailing '=', of which at most 6 count
StrippedLength(d) == Len(d) - Min(TrailingPads(d), 6)

\* upper-cased, and I, L -> 1, O -> 0
Canon(c) ==
  LET u == IF c >= 97 /\ c <= 122 THEN c - 32 ELSE c
  IN  IF u = 73 \/ u = 76 THEN 49 ELSE IF u = 79 THEN 48 ELSE u

\* the characters obtained from c by a case change or an alias replacement
Equivalent(c) ==
  LET k == Canon(c)
  IN  IF k = 49 THEN {49, 73, 105, 76, 108}
      ELSE IF k = 48 THEN {48, 79, 111}
      ELSE IF k >= 65 /\ k <= 90 THEN {k, k + 32}
      ELSE {k}

Upper(d) == [i \in 1..Len(d) |-> IF d[i] >= 97 /\ d[i] <= 122 THEN d[i] - 32 ELSE d[i]]

Lower(d) == [i \in 1..Len(d) |-> IF d[i] >= 65 /\ d[i] <= 90 THEN d[i] + 32 ELSE d[i]]

Unaliased(d) == [i \in 1..Len(d) |-> Canon(d[i])]

(***************************************************************************)
(* C1: round trip.  For each variant and every byte sequence data,         *)
(* decode(variant, encode(variant, data)) succeeds and returns data.       *)
(***************************************************************************)
C1_RoundTrip == pc = "roundtrip" => decoded = Some(data)

C1_Witness ==
  /\ pc = "roundtrip"
  /\ base32_type = "RFC4648Base32"
  /\ Len(data) = 6
  /\ encoded[16] = PadChar
  /\ decoded = Some(data)

(***************************************************************************)
(* C2: padding table.  RFC4648 padded encode of n octets returns           *)
(* 8*ceil(n/5) symbols; exactly the last P are '=', P = 0,6,4,3,1 for      *)
(* n mod 5 = 0,1,2,3,4, and no '=' stands before them.                     *)
(***************************************************************************)
PaddingTable == <<0, 6, 4, 3, 1>>

C2_PaddingTable ==
  (EncodeDone /\ base32_type = "RFC4648Base32") =>
    LET n == Len(data)
        P == PaddingTable[(n % 5) + 1]
    IN  /\ Len(encoded) = 8 * Ceil(n, 5)
        /\ \A i \in 1..Len(encoded) :
             (encoded[i] = PadChar) <=> (i > Len(encoded) - P)

C2_Witness ==
  /\ pc = "encoded"
  /\ base32_type = "RFC4648Base32"
  /\ data = <<0, 1, 2>>
  /\ Len(encoded) = 8
  /\ encoded[5] # PadChar
  /\ \A i \in 6..8 : encoded[i] = PadChar

(***************************************************************************)
(* C3: encode bit layout.  For every variant and every full group of 5     *)
(* octets, the 8 symbols emitted are the symbols of the eight consecutive  *)
(* 5-bit slices, most significant first, of the 40-bit concatenation of    *)
(* the octets, in the variant's alphabet.                                  *)
(***************************************************************************)
C3_EncodeBitLayout ==
  EncodeDone =>
    \A k \in 0..((Len(data) \div 5) - 1) :
      LET b == SubSeq(data, 5 * k + 1, 5 * k + 5)
      IN  \A i \in 0..7 :
            encoded[8 * k + i + 1] = Symbol(base32_type, Slice(b, i))

\* Crockford F8 3E 0F 83 E0 gives Z0Z0Z0Z0
C3_Witness ==
  /\ pc = "encoded"
  /\ base32_type = "CrockfordBase32"
  /\ data = <<248, 62, 15, 131, 224>>
  /\ encoded = <<90, 48, 90, 48, 90, 48, 90, 48>>

(***************************************************************************)
(* C4: unpadded length.  RFC4648 unpadded and Crockford encode of n        *)
(* octets returns ceil(8*n/5) symbols, all of the variant's alphabet and   *)
(* none of them '='.                                                       *)
(***************************************************************************)
C4_UnpaddedLength ==
  (EncodeDone /\ base32_type # "RFC4648Base32") =>
    /\ Len(encoded) = Ceil(8 * Len(data), 5)
    /\ \A i \in 1..Len(encoded) :
         encoded[i] \in SymbolSet(base32_type) /\ encoded[i] # PadChar

\* F8 3E 7F 83 gives 7A7H7AY under RFC4648 unpadded
C4_Witness ==
  /\ pc = "encoded"
  /\ base32_type = "UnpaddedRFC4648Base32"
  /\ data = <<248, 62, 127, 131>>
  /\ encoded = <<55, 65, 55, 72, 55, 65, 89>>

(***************************************************************************)
(* C5: invalid-character rejection.  If the text holds a character that,   *)
(* upper-cased, is not a symbol of the variant's alphabet (nor a Crockford *)
(* alias I, L, O) and is not part of the trailing '=' padding of an        *)
(* RFC4648 padded text, decode returns None.                               *)
(***************************************************************************)
InClaimAlphabet(t, c) ==
  LET u == IF c >= 97 /\ c <= 122 THEN c - 32 ELSE c
  IN  \/ u \in SymbolSet(t)
      \/ t = "CrockfordBase32" /\ u \in {73, 76, 79}

IsTrailingPad(t, d, i) ==
  /\ t = "RFC4648Base32"
  /\ \A j \in i..Len(d) : d[j] = PadChar

C5_InvalidCharRejected ==
  (DecodeDone /\ \E i \in 1..Len(text) :
                    /\ ~InClaimAlphabet(base32_type, text[i])
                    /\ ~IsTrailingPad(base32_type, text, i))
    => decoded = None

(***************************************************************************)
(* C6: Crockford case and alias insensitivity.  decode(Crockford, t)       *)
(* equals decode(Crockford, t') for t' obtained from t by changing the     *)
(* case of letters and replacing I, i, L, l by 1 and O, o by 0.            *)
(***************************************************************************)
C6_CrockfordInsensitive ==
  (DecodeDone /\ base32_type = "CrockfordBase32") =>
    /\ decode("CrockfordBase32", Upper(text)) = decoded
    /\ decode("CrockfordBase32", Lower(text)) = decoded
    /\ decode("CrockfordBase32", Unaliased(text)) = decoded
    /\ \A i \in 1..Len(text) : \A c \in Equivalent(text[i]) :
         decode("CrockfordBase32", [text EXCEPT ![i] = c]) = decoded

\* IiLlOo decodes as 111100 does
C6_Witness ==
  /\ pc = "decoded"
  /\ base32_type = "CrockfordBase32"
  /\ text = <<73, 105, 76, 108, 79, 111>>
  /\ decoded.some
  /\ decoded = decode("CrockfordBase32", <<49, 49, 49, 49, 48, 48>>)

(***************************************************************************)
(* C7: decode bit layout.  The claim as stated: every full group of 8      *)
(* valid symbols q0..q7 gives b0 = q0[4:0] q1[4:3], b1 = q1[2:0] q2[4:0]   *)
(* q3[4], b2 = q3[3:0] q4[4:1], b3 = q4[0] q5[4:0] q6[4:3],                *)
(* b4 = q6[2:0] q7[4:0].                                                   *)
(***************************************************************************)
StatedOctets(q) ==
  << Cat(<<Field(q[1], 4, 0), Field(q[2], 4, 3)>>),
     Cat(<<Field(q[2], 2, 0), Field(q[3], 4, 0), Field(q[4], 4, 4)>>),
     Cat(<<Field(q[4], 3, 0), Field(q[5], 4, 1)>>),
     Cat(<<Field(q[5], 0, 0), Field(q[6], 4, 0), Field(q[7], 4, 3)>>),
     Cat(<<Field(q[7], 2, 0), Field(q[8], 4, 0)>>) >>

C7_DecodeBitLayoutAsStated ==
  (DecodeDone /\ decoded.some) =>
    \A k \in FullGroups(text) :
      LET q == GroupQuintets(base32_type, text, k)
      IN  \A j \in 1..5 :
            5 * k + j <= Len(decoded.val) =>
              decoded.val[5 * k + j] = StatedOctets(q)[j]

(***************************************************************************)
(* C7 amended: every full group of 8 valid symbols q0..q7 gives            *)
(* b0 = q0[4:0] q1[4:2], b1 = q1[1:0] q2[4:0] q3[4], b2 = q3[3:0] q4[4:1], *)
(* b3 = q4[0] q5[4:0] q6[4:3], b4 = q6[2:0] q7[4:0] (the octets that the   *)
(* output length keeps).                                                   *)
(***************************************************************************)
AmendedOctets(q) ==
  << Cat(<<Field(q[1], 4, 0), Field(q[2], 4, 2)>>),
     Cat(<<Field(q[2], 1, 0), Field(q[3], 4, 0), Field(q[4], 4, 4)>>),
     Cat(<<Field(q[4], 3, 0), Field(q[5], 4, 1)>>),
     Cat(<<Field(q[5], 0, 0), Field(q[6], 4, 0), Field(q[7], 4, 3)>>),
     Cat(<<Field(q[7], 2, 0), Field(q[8], 4, 0)>>) >>

C7_DecodeBitLayout ==
  (DecodeDone /\ decoded.some) =>
    \A k \in FullGroups(text) :
      LET q == GroupQuintets(base32_type, text, k)
      IN  \A j \in 1..5 :
            5 * k + j <= Len(decoded.val) =>
              decoded.val[5 * k + j] = AmendedOctets(q)[j]

\* 7A7H7A7H decodes to F8 3E 7F 83 E7
C7_Witness ==
  /\ pc = "decoded"
  /\ base32_type = "RFC4648Base32"
  /\ text = FullGroup
  /\ decoded = Some(<<248, 62, 127, 131, 231>>)
  /\ decoded.val = AmendedOctets(GroupQuintets(base32_type, text, 0))

(***************************************************************************)
(* C8: lenient decode and output length.  A text whose characters all pass *)
(* the table lookup decodes successfully, whatever its length and slack    *)
(* bits, to exactly floor(u*5/8) bytes, u being the text length minus the  *)
(* trailing '=' (at most 6 counted); a text with the same u that differs   *)
(* only in bits beyond the first 8*floor(u*5/8) decodes to the same bytes. *)
(***************************************************************************)
\* the bits of the quintets q and r that lie before bit n of the stream
\* agree, the quintets standing at position i (1-based) of the text
SameLeadingBits(q, r, i, n) ==
  \A j \in 0..4 : (5 * (i - 1) + j < n) => Bit(q, 4 - j) = Bit(r, 4 - j)

C8_LenientDecode ==
  (DecodeDone /\ AllPass(base32_type, text)) =>
    LET u == StrippedLength(text)
        n == (u * 5) \div 8
        inv == InvAlphabet(base32_type)
    IN  /\ decoded.some
        /\ Len(decoded.val) = n
        /\ \A i \in {j \in 1..Len(text) : 5 * j > 8 * n} : \A c \in TextChars :
             LET t2 == [text EXCEPT ![i] = c]
             IN  ( /\ Lookup(inv, c) # Sentinel
                   /\ SameLeadingBits(Lookup(inv, text[i]), Lookup(inv, c), i, 8 * n)
                   /\ StrippedLength(t2) = u )
                 => decode(base32_type, t2) = decoded

\* a single leftover character after a full group, its slack bits set
C8_Witness ==
  /\ pc = "decoded"
  /\ base32_type = "CrockfordBase32"
  /\ text = FullGroup \o <<90>>
  /\ decoded.some
  /\ Len(decoded.val) = 5
  /\ decode(base32_type, FullGroup \o <<65>>) = decoded

(***************************************************************************)
(* C9: up-front capacity.  In encode and in decode the capacity reserved   *)
(* before the loop is at least the number of elements pushed.              *)
(***************************************************************************)
C9_CapacitySuffices == (EncodeDone \/ DecodeDone) => cap >= pushed

(***************************************************************************)
(* C10: the decoder does not distinguish the two RFC4648 variants: a text  *)
(* decodes under RFC4648 padded as it does under RFC4648 unpadded.         *)
(***************************************************************************)
C10_RfcVariantsAgree ==
  /\ (DecodeDone /\ base32_type = "RFC4648Base32")
       => decoded = decode("UnpaddedRFC4648Base32", text)
  /\ (DecodeDone /\ base32_type = "UnpaddedRFC4648Base32")
       => decoded = decode("RFC4648Base32", text)

C10_Witness ==
  /\ pc = "decoded"
  /\ base32_type = "UnpaddedRFC4648Base32"
  /\ Len(text) = 8
  /\ text[8] = PadChar
  /\ decoded.some
  /\ Len(decoded.val) > 0
  /\ decoded = decode("RFC4648Base32", text)

====
